---- MODULE Spec2Model ----
\* Generate-execute-retry workflow of the code agent: the LangGraph flow of
\* core/graph_flow.py, its nodes (core/nodes.py), the completion client
\* (core/interaction.py) and the result assembly of core/code_agent.py.
EXTENDS Integers, Sequences, FiniteSets, TLC

\* ---------------------------------------------------------------- bounds
\* Largest value of MAX_RETRY_ITERATIONS explored (config.py reads it from
\* the environment).
MaxBudget == 2

\* ------------------------------------------------------- optional values
\* Python's Optional[T]: None is the empty sequence, a value v is <<v>>.
None == <<>>
Some(v) == <<v>>

\* Python truthiness of an Optional[str]: None and "" are falsy.
Truthy(opt) == opt # None /\ opt[1] # ""

\* Python q.startswith(p) on sequences.
IsPrefix(p, q) == Len(p) <= Len(q) /\ \A i \in 1..Len(p) : p[i] = q[i]

\* ------------------------------------------------------------- constants
\* nodes.py: max_sandbox_retries = 3
max_sandbox_retries == 3

\* ------------------------------------------------- external-service outcomes
\* What one request to the completion service can do (interaction.py).
LLMOutcomes == {"tool_call_valid", "no_tool_calls", "APIError",
                "ValidationError", "Exception"}

\* The PythonCode instances the completion service may return; imports is
\* the sequence of top-level module names the import lines name.
PythonCodes ==
    { [task_description |-> "t", imports |-> <<>>, code |-> "code_a"],
      [task_description |-> "t", imports |-> <<"numpy", "pandas">>,
       code |-> "code_b"] }

\* Messages of the exceptions the sandbox client can raise (lower-cased
\* content is what the handler inspects).
E2BErrors == {"port is not open", "502 bad gateway", "sandbox timeout",
              "request timeout", "connection reset"}

\* The keywords of nodes.py:203/214 that occur in a lower-cased message.
KeywordsIn(msg) ==
    CASE msg = "port is not open" -> {"port is not open"}
      [] msg = "502 bad gateway"  -> {"502"}
      [] msg = "sandbox timeout"  -> {"sandbox", "timeout"}
      [] msg = "request timeout"  -> {"timeout"}
      [] OTHER                    -> {}

\* What sandbox.run_code of the main script can report.
RunOutcomes == {"stdout", "no_stdout", "error"}

\* What the local child process can do, and what may fail around it.
LocalOutcomes == {"rc0_stdout", "rc0_empty", "nonzero", "TimeoutExpired",
                  "Exception", "ExceptionEmptyMessage"}

VARIABLES
    MAX_RETRY_ITERATIONS,   \* config.py: the retry budget
    ALLOW_LOCAL_EXECUTION,  \* config.py: whether local fallback is permitted
    max_retries,            \* CodeAgent.max_retries: the caller's retry budget
    call,                   \* the CodeAgent method that drives the graph
    state,                  \* the GraphState threaded through the graph
    pc,                     \* the node (or the place inside execute_code) to run next
    attempt,                \* _execute_with_e2b: index of the outer attempt
    sandbox_open,           \* a Sandbox context is entered and not yet exited
    libs_left,              \* libraries still to install in the live session
    error_msg,              \* str(e) of the exception being handled
    temp_file,              \* _execute_locally: "none", "written", "leaked"
    result,                 \* the ExecutionResult returned to the caller
    trace,                  \* history: the steps completed so far, in order
    step,                   \* history: what the current execute_code has done
    last_outcome,           \* history: how the last execute_code returned
    llm,                    \* history: requests sent to the completion service, last reply
    runs,                   \* concurrent calls: per call, the graph state its stream holds
    final_state,            \* concurrent calls: per frame, _run_workflow's final_state
    code_gen,               \* assembly: the artifact's imports and code texts
    fence_history,          \* history: the bare texts and the fence layers put around them
    full_code               \* assembly: the script execute_code assembled (Optional)

vars == << MAX_RETRY_ITERATIONS, ALLOW_LOCAL_EXECUTION, max_retries, call,
           state, pc, attempt,
           sandbox_open, libs_left, error_msg, temp_file, result, trace, step,
           last_outcome, llm, runs, final_state,
           code_gen, fence_history, full_code >>

\* The variables of the assembly of one script from one artifact.
assembly == << code_gen, fence_history, full_code >>

\* The variables of the calls that run concurrently on one agent.
concurrent == << runs, final_state >>

config == << MAX_RETRY_ITERATIONS, ALLOW_LOCAL_EXECUTION, max_retries, call >>

\* ---------------------------------------------------- completion client
\* Mutant of call_llm_with_tool: a transport failure is retried once before
\* the error is returned.
call_llm_with_tool_retries(outcome, instance) ==
    CASE outcome = "tool_call_valid" ->
            [instance |-> Some(instance), error |-> None, requests |-> 1]
      [] outcome = "no_tool_calls" ->
            [instance |-> None,
             error |-> Some("The model failed to use the required tool."),
             requests |-> 1]
      [] outcome = "APIError" ->
            [instance |-> None, error |-> Some("OpenAI API Error"),
             requests |-> 2]
      [] outcome = "ValidationError" ->
            [instance |-> None, error |-> Some("Pydantic Validation Error"),
             requests |-> 1]
      [] OTHER ->
            [instance |-> None,
             error |-> Some("An unexpected error occurred during the LLM call"),
             requests |-> 1]

\* call_llm_with_tool: one request (interaction.py:33, reached once on every
\* path and never repeated); (instance, None) or (None, error text).
\* A valid reply carries the instance the service produced.
call_llm_with_tool(outcome, instance) ==
    CASE outcome = "tool_call_valid" ->
            [instance |-> Some(instance), error |-> None, requests |-> 1]
      [] outcome = "no_tool_calls" ->
            [instance |-> None,
             error |-> Some("The model failed to use the required tool."),
             requests |-> 1]
      [] outcome = "APIError" ->
            [instance |-> None, error |-> Some("OpenAI API Error"),
             requests |-> 1]
      [] outcome = "ValidationError" ->
            [instance |-> None, error |-> Some("Pydantic Validation Error"),
             requests |-> 1]
      [] OTHER ->
            [instance |-> None,
             error |-> Some("An unexpected error occurred during the LLM call"),
             requests |-> 1]

\* No completion call has returned yet.
NoReply == [instance |-> None, error |-> None, requests |-> 0]

\* ------------------------------------------------------------ graph state
\* code_agent.py: the initial_state of generate_and_execute.
initial_state ==
    [ optimized_prompt |-> "",
      generation       |-> None,
      execution_result |-> None,
      error_message    |-> None,
      feedback_history |-> <<>>,
      iteration        |-> 0 ]

\* ExecutionResult's defaults (code_agent.py dataclass).
NoResult ==
    [ success |-> FALSE, code |-> None, imports |-> None, output |-> None,
      error_message |-> None, iterations |-> 0, feedback_history |-> <<>> ]

\* What one execute_code has done so far.
NoStep == [ sessions |-> 0, backoffs |-> 0, local_runs |-> 0,
            main_runs |-> 0, last_e2b_error |-> "",
            full_code |-> None,          \* the script execute_code assembled
            local_script |-> None,       \* the script given to _execute_locally
            only_connectivity |-> TRUE,  \* every handled error was a connectivity error
            run_outcome |-> "none",      \* what the last run of the main script did
            creations |-> 0,             \* Sandbox() calls made, failed ones included
            run_raised |-> FALSE ]       \* a run of the main script raised

\* code_agent.py CodeAgent.__init__: max_retries or MAX_RETRY_ITERATIONS
\* (arg 0 stands for None and for 0, both falsy). The UI assigns the slider
\* value to agent.max_retries before each run (ui/gradio_app.py:37).
CodeAgent_init(arg, default) == IF arg = 0 THEN default ELSE arg

\* The state when method is called on a freshly constructed agent.
InitCall(method) ==
    /\ call = method
    /\ MAX_RETRY_ITERATIONS \in 1..MaxBudget
    /\ ALLOW_LOCAL_EXECUTION \in BOOLEAN
    /\ max_retries \in { CodeAgent_init(arg, MAX_RETRY_ITERATIONS) :
                            arg \in 0..MaxBudget }
    /\ state = initial_state
    /\ pc = "optimize_prompt"
    /\ attempt = 0
    /\ sandbox_open = FALSE
    /\ libs_left = {}
    /\ error_msg = ""
    /\ temp_file = "none"
    /\ result = NoResult
    /\ trace = <<>>
    /\ step = NoStep
    /\ last_outcome = "none"
    /\ llm = [requests |-> 0, reply |-> NoReply]

\* The calls of generate_and_execute made concurrently on one CodeAgent
\* (and so on the one compiled graph, code_agent.py:9 and 48).
Instances == {1, 2}

\* Mutant of frame_of: final_state is kept in one place shared by all calls
\* (an attribute of the agent).
frame_of_shared(i) == 0

\* code_agent.py:168: final_state is a local variable of _run_workflow, so
\* each call has its own; frame_of(i) is the frame of call i.
frame_of(i) == i

Frames == { frame_of(i) : i \in Instances }

\* One concurrent call: where it is, the graph state its stream holds, the
\* external outcomes it has consumed, and what it returned.
NoRun(at) == [ pc |-> at, state |-> initial_state, inputs |-> <<>>,
               result |-> NoResult ]

\* No call is running concurrently.
InitOneCall ==
    /\ runs = [i \in Instances |-> NoRun("idle")]
    /\ final_state = [f \in Frames |-> initial_state]

\* The texts of the artifact are not followed: imports and code are the
\* abstract values of PythonCodes.
NoFenceHistory == [ imports |-> <<>>, code |-> <<>>,
                    imports_layers |-> 0, code_layers |-> 0 ]

InitNoAssembly ==
    /\ code_gen = [imports |-> <<>>, code |-> <<>>]
    /\ fence_history = NoFenceHistory
    /\ full_code = None

\* code_agent.py generate_and_execute, lines 60-79.
Init == InitCall("generate_and_execute") /\ InitOneCall /\ InitNoAssembly

\* code_agent.py generate_code_only, lines 113-135.
InitCodeOnly == InitCall("generate_code_only") /\ InitOneCall /\ InitNoAssembly

\* code_agent.py:135-143 and 170-174: the caller's loop over the stream of
\* node events. generate_and_execute never leaves it early. In
\* generate_code_only the test node_name == "code_generate" guards a break
\* out of the loop over the items of one event; the loop over the stream
\* goes on, so in both cases the next node is the one the edge names.
stream_next(node_name, s, target) ==
    IF /\ call = "generate_code_only"
       /\ node_name = "code_generate"
       /\ ~Truthy(s.error_message)
    THEN target
    ELSE target

exec_locals == << attempt, sandbox_open, libs_left, error_msg, temp_file, step >>

\* ------------------------------------------------------------------ nodes
\* Mutant of optimize_prompt_node: the optimized prompt is stored as a
\* feedback entry of its own next to the reasoning.
optimize_prompt_node_two_entries(s, reply) ==
    IF Truthy(reply.error)
    THEN [s EXCEPT !.error_message = reply.error]
    ELSE [s EXCEPT !.optimized_prompt = reply.instance[1].optimized_prompt,
                   !.feedback_history =
                       << "Reasoning for prompt optimization",
                          "Optimized prompt" >>]

\* nodes.py optimize_prompt, then the edge optimize_prompt -> generate_code.
optimize_prompt_node(s, reply) ==
    IF Truthy(reply.error)
    THEN [s EXCEPT !.error_message = reply.error]
    ELSE [s EXCEPT !.optimized_prompt = reply.instance[1].optimized_prompt,
                   !.feedback_history =
                       << "Reasoning for prompt optimization" >>]

\* Mutant of after_optimize_prompt: the edge leads straight to execution.
after_optimize_prompt_skips_generation(s) == "execute_code"

\* graph_flow.py: add_edge("optimize_prompt", "generate_code").
after_optimize_prompt(s) == "generate_code"

optimize_prompt ==
    /\ pc = "optimize_prompt"
    /\ \E outcome \in LLMOutcomes :
         LET reply == call_llm_with_tool(outcome,
                        [optimized_prompt |-> "optimized", reasoning |-> "r"])
             s2 == optimize_prompt_node(state, reply)
         IN /\ state' = s2
            /\ llm' = [requests |-> llm.requests + reply.requests,
                       reply |-> reply]
            /\ pc' = stream_next("optimize_prompt", s2,
                                  after_optimize_prompt(s2))
            /\ trace' = Append(trace,
                   IF Truthy(reply.error) THEN "optimize_failed"
                                          ELSE "optimize_ok")
    /\ UNCHANGED << config, assembly, concurrent, exec_locals, result, last_outcome >>

\* Mutant of generate_code_node: the error branch returns the state without
\* recording the error.
generate_code_node_drops_error(s, reply) ==
    IF Truthy(reply.error)
    THEN s
    ELSE [s EXCEPT !.generation = reply.instance,
                   !.iteration = s.iteration + 1]

\* Mutant of generate_code_node: a successful generation stores the artifact
\* but does not count the iteration.
generate_code_node_no_increment(s, reply) ==
    IF Truthy(reply.error)
    THEN [s EXCEPT !.error_message = reply.error]
    ELSE [s EXCEPT !.generation = reply.instance]

\* nodes.py generate_code.
generate_code_node(s, reply) ==
    IF Truthy(reply.error)
    THEN [s EXCEPT !.error_message = reply.error]
    ELSE [s EXCEPT !.generation = reply.instance,
                   !.iteration = s.iteration + 1]

\* graph_flow.py: the conditional edge after generate_code.
after_generate_code(s) ==
    IF Truthy(s.error_message) THEN "END" ELSE "execute_code"

generate_code ==
    /\ pc = "generate_code"
    /\ \E outcome \in LLMOutcomes, code \in PythonCodes :
         LET reply == call_llm_with_tool(outcome, code)
             s2 == generate_code_node(state, reply)
         IN /\ state' = s2
            /\ llm' = [requests |-> llm.requests + reply.requests,
                       reply |-> reply]
            /\ pc' = stream_next("generate_code", s2,
                                  after_generate_code(s2))
            /\ trace' = Append(trace,
                   IF Truthy(reply.error) THEN "generate_failed"
                                          ELSE "generate_ok")
    /\ UNCHANGED << config, assembly, concurrent, exec_locals, result, last_outcome >>

\* Mutant of should_continue: the budget test is off by one (> for >=).
should_continue_off_by_one(s) ==
    IF s.error_message = None THEN "end"
    ELSE IF s.iteration > MAX_RETRY_ITERATIONS THEN "end"
    ELSE "retry"

\* Mutant of should_continue: the budget is never tested.
should_continue_no_budget(s) ==
    IF s.error_message = None THEN "end" ELSE "retry"

\* Mutant of should_continue: error_message is not looked at, only the
\* budget decides.
should_continue_ignores_error(s) ==
    IF s.iteration >= MAX_RETRY_ITERATIONS THEN "end" ELSE "retry"

\* nodes.py should_continue: the router after execute_code.
should_continue(s) ==
    IF s.error_message = None THEN "end"
    ELSE IF s.iteration >= MAX_RETRY_ITERATIONS THEN "end"
    ELSE "retry"

\* Mutant of after_execute_code: every execution outcome ends the run.
after_execute_code_always_end(s) == "END"

\* graph_flow.py: the conditional edge after execute_code.
after_execute_code(s) ==
    IF should_continue(s) = "end" THEN "END" ELSE "generate_code"

\* ------------------------------------------------------------ execute_code
\* nodes.py:107: the top-level module names of the import lines.
libs_of(generation) ==
    { generation.imports[i] : i \in 1..Len(generation.imports) }

\* nodes.py:95-97: the assembled script, imports + blank line + code.
full_code_of(generation) == << generation.imports, generation.code >>

\* The execute step returns state s2 from the return statement named how:
\* the graph stores it and routes.
ExecReturn(s2, tag, how) ==
    /\ state' = s2
    /\ last_outcome' = how
    /\ pc' = stream_next("execute_code", s2, after_execute_code(s2))
    /\ trace' = Append(trace, tag)

\* nodes.py execute_code up to the first sandbox attempt of _execute_with_e2b.
execute_code ==
    /\ pc = "execute_code"
    /\ IF state.generation = None
       THEN /\ ExecReturn([state EXCEPT !.error_message =
                      Some("Code generation was skipped or failed.")],
                      "execute_failed", "no_generation")
            /\ UNCHANGED exec_locals
       ELSE /\ pc' = "sandbox_create"
            /\ attempt' = 0
            /\ step' = [NoStep EXCEPT
                  !.full_code = Some(full_code_of(state.generation[1]))]
            /\ libs_left' = {}
            /\ error_msg' = ""
            /\ UNCHANGED << state, trace, sandbox_open, temp_file,
                            last_outcome >>
    /\ UNCHANGED << config, assembly, concurrent, llm, result >>

\* nodes.py:117-121: enter the Sandbox context (one outer attempt).
sandbox_create ==
    /\ pc = "sandbox_create"
    /\ \E outcome \in {"ok"} \cup E2BErrors :
         IF outcome = "ok"
         THEN /\ sandbox_open' = TRUE
              /\ step' = [step EXCEPT !.sessions = @ + 1,
                                      !.creations = @ + 1]
              /\ libs_left' = libs_of(state.generation[1])
              /\ pc' = IF libs_of(state.generation[1]) # {}
                       THEN "install" ELSE "run_code"
              /\ UNCHANGED error_msg
         ELSE /\ error_msg' = outcome
              /\ pc' = "e2b_except"
              /\ step' = [step EXCEPT !.creations = @ + 1]
              /\ UNCHANGED << sandbox_open, libs_left >>
    /\ UNCHANGED << config, assembly, concurrent, llm, state, attempt, temp_file, result, trace,
                    last_outcome >>

\* Mutant of after_install: an exception raised by an installation is not
\* caught inside the loop and reaches the except block of the attempt.
after_install_raises(outcome, rest) ==
    IF outcome = "raises" THEN "e2b_except"
    ELSE IF rest = {} THEN "run_code" ELSE "install"

\* nodes.py:125-165: what follows the installation of one library when the
\* libraries in rest are still to be installed: a reported error
\* (line 141) and an exception (line 162) are logged, and the loop goes on
\* to the next library or to the main script.
after_install(outcome, rest) ==
    IF rest = {} THEN "run_code" ELSE "install"

\* nodes.py:125-163: install one library; a reported error or an exception
\* is logged and the loop goes on.
install_lib ==
    /\ pc = "install"
    /\ \E lib \in libs_left, outcome \in {"ok", "error", "raises"} :
         /\ libs_left' = libs_left \ {lib}
         /\ pc' = after_install(outcome, libs_left \ {lib})
    /\ UNCHANGED << config, assembly, concurrent, llm, state, attempt, sandbox_open, error_msg,
                    temp_file, result, trace, step, last_outcome >>

\* Mutant of sandbox_error_state: the feedback is appended but
\* error_message is left as it was.
sandbox_error_state_no_error(s) ==
    [s EXCEPT !.feedback_history =
                  Append(@, "Your code failed to execute. Error")]

\* Mutant of sandbox_error_state: the feedback replaces the history
\* instead of being appended to it.
sandbox_error_state_replaces(s) ==
    [s EXCEPT !.error_message = Some("Execution failed with sandbox error."),
              !.feedback_history = << "Your code failed to execute. Error" >>]

\* nodes.py:171-181: the state returned for a reported execution error.
sandbox_error_state(s) ==
    [s EXCEPT !.error_message = Some("Execution failed with sandbox error."),
              !.feedback_history =
                  Append(@, "Your code failed to execute. Error")]

\* Mutant of sandbox_success_state: the output is stored but a left-over
\* error_message is not cleared.
sandbox_success_state_keeps_error(s, outcome) ==
    [s EXCEPT !.execution_result =
                  Some(IF outcome = "stdout" THEN "stdout"
                       ELSE "Code executed successfully (no direct stdout)")]

\* Mutant of sandbox_success_state: the state returned after a clean run
\* has lost the artifact that was run.
sandbox_success_state_drops_generation(s, outcome) ==
    [s EXCEPT !.execution_result =
                  Some(IF outcome = "stdout" THEN "stdout"
                       ELSE "Code executed successfully (no direct stdout)"),
              !.error_message = None,
              !.generation = None]

\* nodes.py:182-197: the state returned for a run without error.
sandbox_success_state(s, outcome) ==
    [s EXCEPT !.execution_result =
                  Some(IF outcome = "stdout" THEN "stdout"
                       ELSE "Code executed successfully (no direct stdout)"),
              !.error_message = None]

\* Mutant of with_exit: the session is closed by an explicit call after the
\* run, which an exception raised by the run skips.
with_exit_skipped_by_exception(outcome) == outcome \in E2BErrors

\* nodes.py:117-120: whether the session is still open after control has
\* left the with-block by return (outcome of the run) or by exception:
\* Sandbox.__exit__ releases it on every path.
with_exit(outcome) == FALSE

\* Mutant of run_code_exit: a reported execution error leaves the
\* with-block as an exception, like a failure of the sandbox client.
run_code_exit_error_raises(outcome) ==
    IF outcome \in E2BErrors \cup {"error"} THEN "except" ELSE "return"

\* nodes.py:166-197: how control leaves the with-block after
\* sandbox.run_code of the main script: an exception of the client goes to
\* the except block of the attempt (line 199), a result (with or without
\* execution.error) reaches a return statement.
run_code_exit(outcome) ==
    IF outcome \in E2BErrors THEN "except" ELSE "return"

\* nodes.py:165-197: run the main script in the live session; leaving the
\* with-block closes the session on every path.
run_main ==
    /\ pc = "run_code"
    /\ \E outcome \in RunOutcomes \cup E2BErrors :
       /\ sandbox_open' = with_exit(outcome)
       /\ IF run_code_exit(outcome) = "except"
         THEN /\ error_msg' = outcome
              /\ pc' = "e2b_except"
              /\ step' = [step EXCEPT !.main_runs = @ + 1,
                                      !.run_outcome = outcome,
                                      !.run_raised = TRUE]
              /\ UNCHANGED << state, trace, last_outcome >>
         ELSE /\ step' = [step EXCEPT !.main_runs = @ + 1,
                                      !.run_outcome = outcome]
              /\ UNCHANGED error_msg
              /\ IF outcome = "error"
                 THEN ExecReturn(sandbox_error_state(state), "execute_failed",
                                 "reported_error")
                 ELSE ExecReturn(sandbox_success_state(state, outcome),
                                 "execute_ok", "sandbox_ok")
    /\ UNCHANGED << config, assembly, concurrent, llm, attempt, libs_left, temp_file, result >>

\* nodes.py:203: the test of the handler's first branch (connection or
\* initialization failure).
IsConnectivityError(msg) ==
    \/ "port is not open" \in KeywordsIn(msg)
    \/ "sandbox" \in KeywordsIn(msg)
    \/ "502" \in KeywordsIn(msg)

\* Mutant of handle_e2b_exception: a lifecycle timeout is retried like an
\* unknown error.
handle_e2b_exception_retries_timeout(msg, att, allow) ==
    IF IsConnectivityError(msg)
    THEN IF att < max_sandbox_retries - 1 THEN "retry"
         ELSE IF allow THEN "local"
         ELSE "fallthrough"
    ELSE IF att < max_sandbox_retries - 1 THEN "retry"
         ELSE "local"

\* Mutant of handle_e2b_exception: with fallback permitted a connectivity
\* error goes to local execution at once, whatever the attempt.
handle_e2b_exception_no_retry(msg, att, allow) ==
    IF IsConnectivityError(msg)
    THEN IF allow THEN "local"
         ELSE IF att < max_sandbox_retries - 1 THEN "retry"
         ELSE "fallthrough"
    ELSE IF /\ "timeout" \in KeywordsIn(msg)
            /\ "sandbox.run_code" \notin KeywordsIn(msg)
    THEN "lifecycle"
    ELSE IF att < max_sandbox_retries - 1 THEN "retry"
         ELSE "local"

\* Mutant of handle_e2b_exception: a connectivity or unknown error is
\* retried whatever the number of the attempt.
handle_e2b_exception_unbounded(msg, att, allow) ==
    IF IsConnectivityError(msg) THEN "retry"
    ELSE IF /\ "timeout" \in KeywordsIn(msg)
            /\ "sandbox.run_code" \notin KeywordsIn(msg)
    THEN "lifecycle"
    ELSE "retry"

\* Mutant of handle_e2b_exception: a connectivity error of an attempt that
\* is not the last one leaves the handler without the backoff wait.
handle_e2b_exception_no_backoff(msg, att, allow) ==
    IF IsConnectivityError(msg)
    THEN IF allow /\ att >= max_sandbox_retries - 1 THEN "local"
         ELSE "fallthrough"
    ELSE IF /\ "timeout" \in KeywordsIn(msg)
            /\ "sandbox.run_code" \notin KeywordsIn(msg)
    THEN "lifecycle"
    ELSE IF att < max_sandbox_retries - 1 THEN "retry"
         ELSE "local"

\* nodes.py:199-235: what the exception handler of outer attempt att decides
\* for message msg: "retry" (sleep 5 s, next attempt), "local" (return
\* _execute_locally), "lifecycle" (return the lifecycle-timeout failure), or
\* "fallthrough" (no branch returns: the for loop goes on).
handle_e2b_exception(msg, att, allow) ==
    IF IsConnectivityError(msg)
    THEN IF att < max_sandbox_retries - 1 THEN "retry"
         ELSE IF allow THEN "local"
         ELSE "fallthrough"
    ELSE IF /\ "timeout" \in KeywordsIn(msg)
            /\ "sandbox.run_code" \notin KeywordsIn(msg)
    THEN "lifecycle"
    ELSE IF att < max_sandbox_retries - 1 THEN "retry"
         ELSE "local"

\* Mutant of lifecycle_timeout_state: the failure is recorded in
\* error_message only; no feedback entry is appended.
lifecycle_timeout_state_silent(s) ==
    [s EXCEPT !.error_message = Some("Sandbox lifecycle timeout.")]

\* nodes.py:214-221: the state returned for a sandbox lifecycle timeout.
lifecycle_timeout_state(s) ==
    [s EXCEPT !.error_message = Some("Sandbox lifecycle timeout."),
              !.feedback_history =
                  Append(@, "The code execution environment took too long")]

\* nodes.py:199-235: the except block of one outer attempt and, when it
\* neither continues nor returns, the end of the for loop (line 234).
e2b_except ==
    /\ pc = "e2b_except"
    /\ LET d == handle_e2b_exception(error_msg, attempt, ALLOW_LOCAL_EXECUTION)
           again == d = "retry"
                    \/ (d = "fallthrough" /\ attempt + 1 < max_sandbox_retries)
       IN IF d = "lifecycle"
          THEN /\ ExecReturn(lifecycle_timeout_state(state), "execute_failed",
                             "lifecycle_timeout")
               /\ step' = [step EXCEPT !.last_e2b_error = error_msg,
                                       !.only_connectivity = FALSE]
               /\ UNCHANGED attempt
          ELSE /\ pc' = IF again THEN "sandbox_create" ELSE "local_write"
               /\ attempt' = IF again THEN attempt + 1 ELSE attempt
               /\ step' = [step EXCEPT
                     !.backoffs = IF d = "retry" THEN @ + 1 ELSE @,
                     !.local_runs = IF again THEN @ ELSE @ + 1,
                     !.local_script = IF again THEN @ ELSE step.full_code,
                     !.only_connectivity = @ /\ IsConnectivityError(error_msg),
                     !.last_e2b_error = error_msg]
               /\ UNCHANGED << state, trace, last_outcome >>
    /\ UNCHANGED << config, assembly, concurrent, llm, sandbox_open, libs_left, error_msg, temp_file,
                    result >>

\* Mutant of local_failure_state: a timeout of the child process is reported
\* with the message and feedback of a non-zero exit.
local_failure_state_timeout_as_generic(s, outcome) ==
    CASE outcome \in {"nonzero", "TimeoutExpired"} ->
            [s EXCEPT !.error_message = Some("Local execution failed."),
                      !.feedback_history =
                          Append(@, "Your code failed to execute locally. Error")]
      [] outcome = "ExceptionEmptyMessage" ->
            [s EXCEPT !.error_message = Some(""),
                      !.feedback_history =
                          Append(@, "The code could not be executed locally due to an error")]
      [] OTHER ->
            [s EXCEPT !.error_message = Some("local setup error"),
                      !.feedback_history =
                          Append(@, "The code could not be executed locally due to an error")]

\* nodes.py:276-291: the states _execute_locally returns from its handlers.
local_failure_state(s, outcome) ==
    CASE outcome = "nonzero" ->
            [s EXCEPT !.error_message = Some("Local execution failed."),
                      !.feedback_history =
                          Append(@, "Your code failed to execute locally. Error")]
      [] outcome = "TimeoutExpired" ->
            [s EXCEPT !.error_message = Some("Local execution timed out."),
                      !.feedback_history =
                          Append(@, "Your code took longer than MAX_CODE_TIMEOUT seconds")]
      [] outcome = "ExceptionEmptyMessage" ->
            [s EXCEPT !.error_message = Some(""),
                      !.feedback_history =
                          Append(@, "The code could not be executed locally due to an error")]
      [] OTHER ->
            [s EXCEPT !.error_message = Some("local setup error"),
                      !.feedback_history =
                          Append(@, "The code could not be executed locally due to an error")]

\* nodes.py:178, 216-218, 261, 279-281, 288: what each feedback text
\* carries besides its fixed wording (the values its f-string interpolates).
FeedbackMentions(entry) ==
    CASE entry = "Your code failed to execute. Error" ->
            {"sandbox execution error"}
      [] entry = "The code execution environment took too long" ->
            {"sandbox lifecycle timeout"}
      [] entry = "Your code failed to execute locally. Error" ->
            {"local error"}
      [] entry = "Your code took longer than MAX_CODE_TIMEOUT seconds" ->
            {"local timeout"}
      [] entry = "The code could not be executed locally due to an error" ->
            {"local error"}
      [] OTHER -> {}

\* nodes.py:265-274: the state returned for exit status 0.
local_success_state(s, outcome) ==
    [s EXCEPT !.execution_result =
                  Some(IF outcome = "rc0_stdout" THEN "stdout"
                       ELSE "Code executed successfully locally (no output)"),
              !.error_message = None]

\* nodes.py:258-291: the return statement of _execute_locally that a failure
\* of the child process or around it reaches.
local_return(outcome) ==
    CASE outcome = "nonzero"        -> "local_nonzero"
      [] outcome = "TimeoutExpired" -> "local_timeout"
      [] OTHER                      -> "local_exception"

\* nodes.py:242-246 (+285-299): create the temporary file and write the
\* script. temp_file_path is assigned after the write, so a failed write
\* leaves the file on disk with no path to unlink.
local_write ==
    /\ pc = "local_write"
    /\ \E outcome \in {"ok", "create_fails", "write_fails"},
          e \in {"Exception", "ExceptionEmptyMessage"} :
         IF outcome = "ok"
         THEN /\ temp_file' = "written"
              /\ pc' = "local_run"
              /\ UNCHANGED << state, trace, last_outcome >>
         ELSE /\ temp_file' = IF outcome = "write_fails" THEN "leaked"
                              ELSE "none"
              /\ ExecReturn(local_failure_state(state, e), "execute_failed",
                            "local_exception")
    /\ UNCHANGED << config, assembly, concurrent, llm, attempt, sandbox_open, libs_left, error_msg,
                    result, step >>

\* nodes.py:250-299: run the child process, build the returned state, and
\* unlink the temporary file in the finally block (an OSError is logged).
local_run ==
    /\ pc = "local_run"
    /\ \E outcome \in LocalOutcomes, unlinked \in BOOLEAN :
         /\ temp_file' = IF unlinked THEN "none" ELSE "leaked"
         /\ IF outcome \in {"rc0_stdout", "rc0_empty"}
            THEN ExecReturn(local_success_state(state, outcome), "execute_ok",
                            "local_ok")
            ELSE ExecReturn(local_failure_state(state, outcome),
                            "execute_failed", local_return(outcome))
    /\ UNCHANGED << config, assembly, concurrent, llm, attempt, sandbox_open, libs_left, error_msg,
                    result, step >>

\* ---------------------------------------------------------- result assembly
\* code_agent.py _process_final_state.
process_final_state(s) ==
    [ success |-> s.error_message = None /\ s.execution_result # None,
      code |-> IF s.generation # None THEN Some(s.generation[1].code) ELSE None,
      imports |-> IF s.generation # None THEN Some(s.generation[1].imports)
                  ELSE None,
      output |-> s.execution_result,
      error_message |-> s.error_message,
      iterations |-> s.iteration,
      feedback_history |-> s.feedback_history ]

\* code_agent.py generate_and_execute: the stream has ended; the final
\* state is turned into the ExecutionResult and returned.
generate_and_execute_return ==
    /\ pc = "END"
    /\ call = "generate_and_execute"
    /\ result' = process_final_state(state)
    /\ pc' = "returned"
    /\ UNCHANGED << config, assembly, concurrent, llm, state, exec_locals, trace, last_outcome >>

\* The nodes of the graph: the driver (the stream of the compiled graph)
\* is between two node events when pc names one of them.
GraphNodes == {"optimize_prompt", "generate_code", "execute_code"}

\* code_agent.py:97-101 and 160-164: the ExecutionResult built by the except
\* block; iterations and feedback_history keep the dataclass defaults.
exception_result(error_msg_text) ==
    [NoResult EXCEPT !.error_message = Some(error_msg_text)]

\* code_agent.py generate_and_execute, lines 90-101: the stream raised
\* instead of yielding the next node's event (an exception of the graph
\* driver, such as its recursion limit, or one a node let through); the
\* state collected so far is dropped.
generate_and_execute_except ==
    /\ pc \in GraphNodes
    /\ call = "generate_and_execute"
    /\ result' = exception_result("Workflow execution failed")
    /\ pc' = "returned"
    /\ UNCHANGED << config, assembly, concurrent, llm, state, exec_locals, trace, last_outcome >>

\* code_agent.py _process_generation_state.
process_generation_state(s) ==
    [ success |-> s.error_message = None /\ s.generation # None,
      code |-> IF s.generation # None THEN Some(s.generation[1].code) ELSE None,
      imports |-> IF s.generation # None THEN Some(s.generation[1].imports)
                  ELSE None,
      output |-> None,
      error_message |-> s.error_message,
      iterations |-> s.iteration,
      feedback_history |-> s.feedback_history ]

\* code_agent.py generate_code_only: the stream has ended; the state is
\* turned into the ExecutionResult and returned.
generate_code_only_return ==
    /\ pc = "END"
    /\ call = "generate_code_only"
    /\ result' = process_generation_state(state)
    /\ pc' = "returned"
    /\ UNCHANGED << config, assembly, concurrent, llm, state, exec_locals, trace, last_outcome >>

\* code_agent.py generate_code_only, lines 153-164: the stream raised.
generate_code_only_except ==
    /\ pc \in GraphNodes
    /\ call = "generate_code_only"
    /\ result' = exception_result("Code generation failed")
    /\ pc' = "returned"
    /\ UNCHANGED << config, assembly, concurrent, llm, state, exec_locals, trace, last_outcome >>

Next ==
    \/ optimize_prompt
    \/ generate_code
    \/ execute_code
    \/ sandbox_create
    \/ install_lib
    \/ run_main
    \/ e2b_except
    \/ local_write
    \/ local_run
    \/ generate_and_execute_return
    \/ generate_and_execute_except

Spec == Init /\ [][Next]_vars

\* The graph as generate_code_only drives it.
NextCodeOnly ==
    \/ optimize_prompt
    \/ generate_code
    \/ execute_code
    \/ sandbox_create
    \/ install_lib
    \/ run_main
    \/ e2b_except
    \/ local_write
    \/ local_run
    \/ generate_code_only_return
    \/ generate_code_only_except

SpecCodeOnly == InitCodeOnly /\ [][NextCodeOnly]_vars

\* ------------------------------------------------- two concurrent calls
\* The variables of the single call followed step by step above.
one_call == << state, pc, attempt, sandbox_open, libs_left, error_msg,
               temp_file, result, trace, step, last_outcome, llm >>

\* External outcomes followed for the concurrent calls: the completion
\* service answers or fails; the execution step ends with a sandbox success,
\* a reported error, or a failed local fallback (with and without a message).
TwoLLMOutcomes == {"tool_call_valid", "APIError"}

TwoExecOutcomes == {"stdout", "error", "nonzero", "ExceptionEmptyMessage"}

\* nodes.py:171-197 and 258-291: the state the execution step returns for
\* outcome o.
exec_state(s, o) ==
    CASE o = "stdout" -> sandbox_success_state(s, o)
      [] o = "error"  -> sandbox_error_state(s)
      [] OTHER        -> local_failure_state(s, o)

\* One external outcome as a call consumes it.
Input(outcome, code) == [outcome |-> outcome, code |-> code]

\* code_agent.py:67-79 and 168: two calls start on the agent; each builds its
\* own initial_state and copies it into its final_state.
InitTwoCalls ==
    /\ InitCall("generate_and_execute")
    /\ ALLOW_LOCAL_EXECUTION
    /\ max_retries = MAX_RETRY_ITERATIONS
    /\ runs = [i \in Instances |-> NoRun("start")]
    /\ final_state = [f \in Frames |-> initial_state]
    /\ InitNoAssembly

\* code_agent.py:67-75, 168-170: call i builds its initial state, copies it
\* into final_state and opens the stream.
run_start(i) ==
    /\ runs[i].pc = "start"
    /\ runs' = [runs EXCEPT ![i].pc = "optimize_prompt",
                            ![i].state = initial_state]
    /\ final_state' = [final_state EXCEPT ![frame_of(i)] = initial_state]
    /\ UNCHANGED << config, assembly, one_call >>

\* code_agent.py:170-172: the stream of call i runs node_name on the state it
\* holds, yields the returned state node_data, and the caller's loop merges
\* it into final_state (the node returns every key of the state).
run_node(i, node_name, node_data, target, input) ==
    /\ runs' = [runs EXCEPT ![i].state = node_data,
                            ![i].pc = stream_next(node_name, node_data, target),
                            ![i].inputs = Append(@, input)]
    /\ final_state' = [final_state EXCEPT ![frame_of(i)] = node_data]
    /\ UNCHANGED << config, assembly, one_call >>

run_optimize_prompt(i) ==
    /\ runs[i].pc = "optimize_prompt"
    /\ \E outcome \in TwoLLMOutcomes :
         LET reply == call_llm_with_tool(outcome,
                        [optimized_prompt |-> "optimized", reasoning |-> "r"])
             s2 == optimize_prompt_node(runs[i].state, reply)
         IN run_node(i, "optimize_prompt", s2, after_optimize_prompt(s2),
                     Input(outcome, None))

run_generate_code(i) ==
    /\ runs[i].pc = "generate_code"
    /\ \E outcome \in TwoLLMOutcomes, code \in PythonCodes :
         LET reply == call_llm_with_tool(outcome, code)
             s2 == generate_code_node(runs[i].state, reply)
         IN run_node(i, "generate_code", s2, after_generate_code(s2),
                     Input(outcome, Some(code)))

\* nodes.py execute_code as one step: its sandbox sessions, its temporary
\* file and its counters are local to the call.
run_execute_code(i) ==
    /\ runs[i].pc = "execute_code"
    /\ \E outcome \in TwoExecOutcomes :
         LET s2 == exec_state(runs[i].state, outcome)
         IN run_node(i, "execute_code", s2, after_execute_code(s2),
                     Input(outcome, None))

\* code_agent.py:79-88: the stream of call i has ended; its final_state is
\* turned into the ExecutionResult.
run_return(i) ==
    /\ runs[i].pc = "END"
    /\ runs' = [runs EXCEPT ![i].pc = "returned",
                            ![i].result =
                                process_final_state(final_state[frame_of(i)])]
    /\ UNCHANGED << final_state, config, assembly, one_call >>

NextTwoCalls ==
    \/ \E i \in Instances : run_start(i)
    \/ \E i \in Instances : run_optimize_prompt(i)
    \/ \E i \in Instances : run_generate_code(i)
    \/ \E i \in Instances : run_execute_code(i)
    \/ \E i \in Instances : run_return(i)

SpecTwoCalls == InitTwoCalls /\ [][NextTwoCalls]_vars

\* ------------------------------------------- assembly of the script text
\* Texts are sequences of tokens: one backtick, the word python, a newline
\* (the whitespace str.strip removes) and any other character.
FenceAlphabet == {"backtick", "python", "\n", "x"}

Whitespace == {"\n"}

\* The longest imports text and the longest code text followed.
MaxImportsLen == 1

MaxCodeLen == 4

\* The most layers of code fence put around one text.
MaxFenceLayers == 2

Texts(n) == UNION { [1..k -> FenceAlphabet] : k \in 0..n }

\* nodes.py:95: the two alternatives of the pattern, three backticks then
\* python and a newline, or three backticks alone, in the order the regular
\* expression tries them.
fence_python == << "backtick", "backtick", "backtick", "python", "\n" >>

fence_plain == << "backtick", "backtick", "backtick" >>

Drop(t, n) == SubSeq(t, n + 1, Len(t))

\* Mutant of re_sub_fence: only the first occurrence is removed
\* (re.sub with count=1).
RECURSIVE re_sub_fence_first_only(_)
re_sub_fence_first_only(t) ==
    IF t = <<>> THEN <<>>
    ELSE IF IsPrefix(fence_python, t) THEN Drop(t, Len(fence_python))
    ELSE IF IsPrefix(fence_plain, t) THEN Drop(t, Len(fence_plain))
    ELSE << Head(t) >> \o re_sub_fence_first_only(Tail(t))

\* nodes.py:95-96: re.sub(pattern, "", text): every leftmost
\* non-overlapping occurrence is removed, scanning from the left; at each
\* position the first alternative is tried first.
RECURSIVE re_sub_fence(_)
re_sub_fence(t) ==
    IF t = <<>> THEN <<>>
    ELSE IF IsPrefix(fence_python, t)
         THEN re_sub_fence(Drop(t, Len(fence_python)))
    ELSE IF IsPrefix(fence_plain, t)
         THEN re_sub_fence(Drop(t, Len(fence_plain)))
    ELSE << Head(t) >> \o re_sub_fence(Tail(t))

\* str.lstrip() and str.rstrip().
RECURSIVE lstrip(_)
lstrip(t) ==
    IF t # <<>> /\ Head(t) \in Whitespace THEN lstrip(Tail(t)) ELSE t

RECURSIVE rstrip(_)
rstrip(t) ==
    IF t # <<>> /\ t[Len(t)] \in Whitespace
    THEN rstrip(SubSeq(t, 1, Len(t) - 1))
    ELSE t

\* nodes.py:95-96: re.sub(...).strip().
strip_fences(t) == rstrip(lstrip(re_sub_fence(t)))

\* nodes.py:95-97: full_code = f"{imports}\n\n{code}" of the stripped texts.
assemble_full_code(imports, code) ==
    strip_fences(imports) \o << "\n", "\n" >> \o strip_fences(code)

\* One layer of markdown code fence around a text, as a completion reply
\* may carry it.
wrap_in_fence(t) == fence_python \o t \o << "\n", "backtick", "backtick", "backtick" >>

RECURSIVE fenced(_, _)
fenced(t, n) == IF n = 0 THEN t ELSE wrap_in_fence(fenced(t, n - 1))

\* An artifact with bare imports and code texts has been generated; the
\* rest of the agent is idle.
InitAssembly ==
    /\ InitCall("generate_and_execute")
    /\ MAX_RETRY_ITERATIONS = 1
    /\ ALLOW_LOCAL_EXECUTION
    /\ max_retries = 1
    /\ InitOneCall
    /\ \E i \in Texts(MaxImportsLen), c \in Texts(MaxCodeLen) :
          /\ code_gen = [imports |-> i, code |-> c]
          /\ fence_history = [ imports |-> i, code |-> c,
                               imports_layers |-> 0, code_layers |-> 0 ]
    /\ full_code = None

\* The artifact's imports arrive with one more layer of fence.
fence_imports ==
    /\ full_code = None
    /\ fence_history.imports_layers < MaxFenceLayers
    /\ code_gen' = [code_gen EXCEPT !.imports = wrap_in_fence(@)]
    /\ fence_history' = [fence_history EXCEPT !.imports_layers = @ + 1]
    /\ UNCHANGED << full_code, config, concurrent, one_call >>

\* The artifact's code arrives with one more layer of fence.
fence_code ==
    /\ full_code = None
    /\ fence_history.code_layers < MaxFenceLayers
    /\ code_gen' = [code_gen EXCEPT !.code = wrap_in_fence(@)]
    /\ fence_history' = [fence_history EXCEPT !.code_layers = @ + 1]
    /\ UNCHANGED << full_code, config, concurrent, one_call >>

\* nodes.py:95-97: execute_code assembles the script.
assemble_script ==
    /\ full_code = None
    /\ full_code' = Some(assemble_full_code(code_gen.imports, code_gen.code))
    /\ UNCHANGED << code_gen, fence_history, config, concurrent, one_call >>

NextAssembly ==
    \/ fence_imports
    \/ fence_code
    \/ assemble_script

SpecAssembly == InitAssembly /\ [][NextAssembly]_vars

\* Every completion call, sandbox operation and local execution returns, so
\* a step that can be taken is eventually taken.
FairSpec == Spec /\ WF_vars(Next)

\* ================================================================ claims
Count(seq, x) == Cardinality({ i \in 1..Len(seq) : seq[i] = x })


Terminated == pc \in {"END", "returned"}

GenerationAttempts == Count(trace, "generate_ok") + Count(trace, "generate_failed")

ExecutionsDone == Count(trace, "execute_ok") + Count(trace, "execute_failed")

\* C1: when a run of generate_and_execute has terminated, success is
\* reported iff execution_result is present iff error_message is absent:
\* never both an output and an error, never neither (in the workflow state
\* at END and in the result returned).
C1_SuccessIffOutputIffNoError ==
    /\ pc = "END" =>
         (state.execution_result # None <=> state.error_message = None)
    /\ pc = "returned" =>
         /\ result.success <=> result.output # None
         /\ result.success <=> result.error_message = None

\* C1 witness: a run that returned success through the local fallback.
C1_Witness ==
    /\ pc = "returned"
    /\ result.success
    /\ step.local_runs > 0

\* C2: with a positive retry budget, iteration is at most
\* MAX_RETRY_ITERATIONS when the workflow terminates.
C2_IterationWithinBudget ==
    Terminated =>
        /\ state.iteration <= MAX_RETRY_ITERATIONS
        /\ pc = "returned" => result.iterations <= MAX_RETRY_ITERATIONS

\* C2 witness: a run that failed with the whole budget used after a
\* regeneration.
C2_Witness ==
    /\ pc = "returned"
    /\ MAX_RETRY_ITERATIONS = MaxBudget
    /\ state.iteration = MAX_RETRY_ITERATIONS
    /\ Count(trace, "generate_ok") >= 2

\* C3: whenever a generation call succeeds, the new artifact is stored,
\* error_message is cleared and the execution step is entered next (also for
\* a regeneration after a failed execution).
C3_GenerationSuccessExecutes ==
    [][ (pc = "generate_code" /\ trace' = Append(trace, "generate_ok")) =>
            /\ state'.generation # None
            /\ state'.error_message = None
            /\ pc' = "execute_code" ]_vars

\* C4: when optimization and every generation succeed and every execution
\* fails, a terminated run with budget N has made exactly N generation
\* attempts and N executions, and reports failure, iterations = N and at
\* least N feedback entries.
C4_AllExecutionsFail ==
    ( /\ pc = "returned"
      /\ trace # <<>>
      /\ trace[1] = "optimize_ok"
      /\ Count(trace, "generate_failed") = 0
      /\ Count(trace, "execute_ok") = 0 ) =>
        /\ GenerationAttempts = MAX_RETRY_ITERATIONS
        /\ ExecutionsDone = MAX_RETRY_ITERATIONS
        /\ ~result.success
        /\ result.iterations = MAX_RETRY_ITERATIONS
        /\ Len(result.feedback_history) >= MAX_RETRY_ITERATIONS

\* C5: when ALLOW_LOCAL_EXECUTION is false, local execution is never
\* invoked in any execution step.
C5_NoLocalWithoutPermission ==
    ~ALLOW_LOCAL_EXECUTION =>
        /\ step.local_runs = 0
        /\ pc \notin {"local_write", "local_run"}

\* C6: when the last sandbox attempt of an execution step has failed and
\* local fallback is forbidden, the step returns a failure state: a
\* sandbox-related error_message, no execution_result, one feedback entry
\* appended.
C6_ExhaustedWithoutFallbackFails ==
    [][ ( /\ pc = "e2b_except"
          /\ attempt = max_sandbox_retries - 1
          /\ ~ALLOW_LOCAL_EXECUTION ) =>
            /\ pc' \in {"END", "generate_code"}
            /\ state'.error_message \in
                   { Some("Sandbox lifecycle timeout."),
                     Some("Execution failed with sandbox error.") }
            /\ state'.execution_result = None
            /\ Len(state'.feedback_history) = Len(state.feedback_history) + 1
      ]_vars

\* C7: if the prompt-optimization call fails the workflow terminates at
\* once: no generation call and no execution follows, iteration stays 0.
C7_OptimizationFailureTerminates ==
    (trace # <<>> /\ trace[1] = "optimize_failed") =>
        /\ Len(trace) = 1
        /\ state.iteration = 0
        /\ state.generation = None

\* C8: a failed generation call sets error_message and ends the run as a
\* failure: nothing runs after it (it is the last step of the trace and the
\* workflow is at END), whatever budget remains.
C8_GenerationFailureEndsRun ==
    \A i \in 1..Len(trace) :
        trace[i] = "generate_failed" =>
            /\ i = Len(trace)
            /\ Terminated
            /\ state.error_message # None
            /\ state.execution_result = None
            /\ pc = "returned" => ~result.success

\* C8 witness: a regeneration failed while retry budget remained.
C8_Witness ==
    /\ pc = "returned"
    /\ trace # <<>>
    /\ trace[Len(trace)] = "generate_failed"
    /\ Count(trace, "execute_failed") >= 1
    /\ state.iteration < MAX_RETRY_ITERATIONS

\* C9: iteration equals the number of generation attempts started so far,
\* whether they succeeded or failed.
C9_IterationCountsAttempts ==
    state.iteration = GenerationAttempts

\* C10: feedback_history is append-only: across every step the previous
\* history is a prefix of the new one.
C10_FeedbackAppendOnly ==
    [][ IsPrefix(state.feedback_history, state'.feedback_history) ]_vars

\* C10 witness: a history holding the optimization reasoning and two
\* execution failures.
C10_Witness ==
    /\ Len(state.feedback_history) >= 3
    /\ state.feedback_history[1] = "Reasoning for prompt optimization"

\* C11: every run terminates. The number of completed steps is bounded by
\* the retry budget (one optimization, then at most MAX_RETRY_ITERATIONS
\* generate-execute cycles), and when every call returns the run reaches
\* its terminal state.
C11_RunTerminates ==
    /\ [](Len(trace) <= 1 + 2 * MAX_RETRY_ITERATIONS)
    /\ <>(pc = "returned")

\* C11 witness: a terminated run that used every cycle the budget allows.
C11_Witness ==
    /\ pc = "returned"
    /\ MAX_RETRY_ITERATIONS = MaxBudget
    /\ Len(trace) = 1 + 2 * MAX_RETRY_ITERATIONS

\* C12: the budget the workflow enforces is the caller's max_retries: no
\* run makes more than max_retries generation attempts and the reported
\* iterations are at most max_retries.
C12_CallerBudgetEnforced ==
    /\ GenerationAttempts <= max_retries
    /\ state.iteration <= max_retries
    /\ pc = "returned" => result.iterations <= max_retries

\* C13: generate_code_only stops after the first successful generation:
\* the execution step never runs, no sandbox session and no local process
\* is started, and the returned output is None.
C13_CodeOnlyNeverExecutes ==
    call = "generate_code_only" =>
        /\ pc \notin {"execute_code", "sandbox_create", "install", "run_code",
                      "e2b_except", "local_write", "local_run"}
        /\ ExecutionsDone = 0
        /\ step.sessions = 0
        /\ step.local_runs = 0
        /\ pc = "returned" => result.output = None

\* C14: a sandbox session is open only between its creation and the end
\* of the outer attempt that created it (while libraries are installed and
\* the script runs): none is open when a new one is created, when the
\* handler or the local fallback runs, or when the execution step has
\* returned.
C14_SessionReleased ==
    /\ sandbox_open => pc \in {"install", "run_code"}
    /\ pc \in {"install", "run_code"} => sandbox_open

\* C14 witness: the execution step has returned after a second session was
\* created (the first attempt left by an exception of the run).
C14_Witness ==
    /\ Terminated
    /\ step.sessions >= 2
    /\ step.main_runs >= 2
    /\ ~sandbox_open

\* C15: after _execute_locally has returned, on every exit path, no
\* temporary file it created still exists.
C15_TempFileDeleted ==
    /\ temp_file # "leaked"
    /\ pc # "local_run" => temp_file = "none"

\* The main script run of this step reported an execution error.
ReportedErrorStep ==
    /\ pc = "run_code"
    /\ trace' = Append(trace, "execute_failed")

\* C16: a reported execution error of the first or second run
\* in a live session is retried in the same session: the step does not
\* return, the session stays open and the script is run again.
C16_InnerRetrySameSession ==
    [][ (ReportedErrorStep /\ step.main_runs < 2) =>
            /\ pc' = "run_code"
            /\ sandbox_open'
            /\ step'.sessions = step.sessions ]_vars

\* A message the handler takes for a sandbox lifecycle timeout: it names a
\* timeout and none of the connectivity keywords.
LifecycleTimeoutMessage(msg) ==
    /\ "timeout" \in KeywordsIn(msg)
    /\ KeywordsIn(msg) \cap {"port is not open", "sandbox", "502"} = {}

\* The handler of a failed sandbox attempt is about to run on a lifecycle
\* timeout.
HandlingLifecycleTimeout ==
    pc = "e2b_except" /\ LifecycleTimeoutMessage(error_msg)

\* C17: a sandbox failure classified as a lifecycle timeout is not retried:
\* the execution step returns at once, with no further session, no local
\* execution, error_message set and one feedback entry appended.
C17_LifecycleTimeoutNotRetried ==
    [][ HandlingLifecycleTimeout =>
            /\ pc' \in {"END", "generate_code"}
            /\ step'.sessions = step.sessions
            /\ step'.local_runs = step.local_runs
            /\ step'.backoffs = step.backoffs
            /\ state'.error_message = Some("Sandbox lifecycle timeout.")
            /\ state'.execution_result = None
            /\ state'.feedback_history =
                   Append(state.feedback_history,
                          "The code execution environment took too long")
      ]_vars

\* C17 witness: the step returned the lifecycle-timeout failure from its
\* second outer attempt, without local execution.
C17_Witness ==
    /\ trace # <<>>
    /\ trace[Len(trace)] = "execute_failed"
    /\ state.error_message = Some("Sandbox lifecycle timeout.")
    /\ attempt = 1
    /\ step.local_runs = 0

\* C18: a sandbox lifecycle timeout with local fallback disallowed ends the
\* run: no further generation attempt follows it and iteration keeps its
\* value.
C18_LifecycleTimeoutEndsRun ==
    [][ (HandlingLifecycleTimeout /\ ~ALLOW_LOCAL_EXECUTION) =>
            /\ pc' = "END"
            /\ state'.iteration = state.iteration ]_vars

\* C18 (amended): a sandbox lifecycle timeout with local fallback disallowed
\* ends the execution step as a failure without changing iteration, and the
\* retry decision applies to it as to any execution failure: the run ends
\* there only when iteration has reached MAX_RETRY_ITERATIONS, otherwise a
\* further generation attempt is made.
C18_LifecycleTimeoutTakesRetryDecision ==
    [][ (HandlingLifecycleTimeout /\ ~ALLOW_LOCAL_EXECUTION) =>
            /\ state'.iteration = state.iteration
            /\ state'.error_message = Some("Sandbox lifecycle timeout.")
            /\ pc' = IF state.iteration >= MAX_RETRY_ITERATIONS
                     THEN "END" ELSE "generate_code" ]_vars

\* C18 witness: with fallback disallowed, a lifecycle timeout has been
\* returned and the workflow is back at generation.
C18_Witness ==
    /\ ~ALLOW_LOCAL_EXECUTION
    /\ pc = "generate_code"
    /\ state.error_message = Some("Sandbox lifecycle timeout.")
    /\ state.iteration < MAX_RETRY_ITERATIONS

\* C19: with local fallback permitted, local execution is invoked only
\* after the last outer attempt has failed (two backoffs taken, third
\* attempt handled), at most once per execution step and with the script
\* execute_code assembled; a transient or unknown failure of the last
\* attempt invokes it, and what it returns is what the step returns.
C19_LocalFallbackAfterExhaustion ==
    /\ [](ALLOW_LOCAL_EXECUTION =>
            /\ step.local_runs <= 1
            /\ pc \in {"local_write", "local_run"} =>
                 /\ step.local_runs = 1
                 /\ step.local_script =
                        Some(full_code_of(state.generation[1]))
            /\ step.local_runs = 1 =>
                 /\ attempt = max_sandbox_retries - 1
                 /\ step.backoffs = max_sandbox_retries - 1
                 /\ step.local_script # None
                 /\ step.local_script = step.full_code)
    /\ [][ ( /\ ALLOW_LOCAL_EXECUTION
             /\ pc = "e2b_except"
             /\ attempt = max_sandbox_retries - 1
             /\ ~LifecycleTimeoutMessage(error_msg) ) =>
                 /\ pc' = "local_write"
                 /\ step'.local_runs = 1
                 /\ state' = state ]_vars
    /\ [][ ( /\ ALLOW_LOCAL_EXECUTION
             /\ pc \in {"local_write", "local_run"}
             /\ pc' \notin {"local_write", "local_run"} ) =>
                 /\ pc' \in {"END", "generate_code"}
                 /\ trace' \in { Append(trace, "execute_ok"),
                                 Append(trace, "execute_failed") }
                 /\ step' = step ]_vars

\* C19 witness: fallback permitted, three outer attempts failed, the local
\* run is in progress.
C19_Witness ==
    /\ ALLOW_LOCAL_EXECUTION
    /\ pc = "local_run"
    /\ step.local_runs = 1
    /\ step.backoffs = max_sandbox_retries - 1
    /\ step.sessions = 0

\* C20: when sandbox creation failed on every outer attempt with
\* connectivity errors, fallback is permitted and the local execution failed
\* too, the feedback of the failure outcome mentions both the last sandbox
\* error and the local error.
C20_FeedbackMentionsBothErrors ==
    ( /\ pc = "returned"
      /\ ALLOW_LOCAL_EXECUTION
      /\ trace # <<>>
      /\ trace[Len(trace)] = "execute_failed"
      /\ step.sessions = 0
      /\ step.backoffs = max_sandbox_retries - 1
      /\ step.only_connectivity
      /\ step.local_runs = 1 ) =>
        /\ \E i \in 1..Len(result.feedback_history) :
               "sandbox connection error" \in
                   FeedbackMentions(result.feedback_history[i])
        /\ \E i \in 1..Len(result.feedback_history) :
               FeedbackMentions(result.feedback_history[i]) \cap
                   {"local error", "local timeout"} # {}

\* The return statements an execution step takes for a timeout, and those
\* it takes for a non-zero exit or a reported execution error.
TimeoutReturns == {"local_timeout", "lifecycle_timeout"}

GenericFailureReturns == {"local_nonzero", "reported_error"}

Last(seq) == seq[Len(seq)]

\* The execution step returns in this step.
ExecutionReturns == trace' # trace /\ pc \notin {"optimize_prompt", "generate_code"}

ReturnedStates(s) ==
    { [s EXCEPT !.error_message = Some("Code generation was skipped or failed.")],
      sandbox_error_state(s), lifecycle_timeout_state(s) }
    \cup { sandbox_success_state(s, o) : o \in {"stdout", "no_stdout"} }
    \cup { local_success_state(s, o) : o \in {"rc0_stdout", "rc0_empty"} }
    \cup { local_failure_state(s, o) :
               o \in LocalOutcomes \ {"rc0_stdout", "rc0_empty"} }

\* C22: after an execution step the workflow terminates with success when
\* error_message is absent, terminates with failure when error_message is
\* present and iteration >= MAX_RETRY_ITERATIONS, and goes back to
\* generation otherwise; nothing else can follow, and the state that reaches
\* the next node is the state the execution step returned.
C22_RetryDecision ==
    /\ [][ ExecutionReturns =>
              /\ pc' = IF state'.error_message = None THEN "END"
                       ELSE IF state'.iteration >= MAX_RETRY_ITERATIONS
                            THEN "END"
                       ELSE "generate_code"
              /\ state'.error_message = None =>
                     /\ trace' = Append(trace, "execute_ok")
                     /\ state'.execution_result # None
              /\ state'.error_message # None =>
                     trace' = Append(trace, "execute_failed")
              /\ state' \in ReturnedStates(state) ]_vars
    /\ []( (pc = "returned" /\ trace # <<>>) =>
              /\ Last(trace) = "execute_ok" => result.success
              /\ Last(trace) = "execute_failed" => ~result.success )

\* C22 witness: a second execution failed with the budget used up, after the
\* first failure was sent back to generation.
C22_Witness ==
    /\ pc = "END"
    /\ Last(trace) = "execute_failed"
    /\ Count(trace, "execute_failed") = 2
    /\ state.iteration = MAX_RETRY_ITERATIONS

\* The first three steps of the run all succeeded.
FirstTrySuccess ==
    /\ Len(trace) >= 3
    /\ trace[1] = "optimize_ok"
    /\ trace[2] = "generate_ok"
    /\ trace[3] = "execute_ok"

RunFailed == pc = "returned" /\ ~result.success

\* C24: generate_and_execute always returns an ExecutionResult, and when
\* the run did not succeed the result has success = false and a non-empty
\* error_message.
C24_FailureHasMessage ==
    pc = "returned" =>
        /\ result.success =>
              (Last(trace) = "execute_ok" /\ result.error_message = None)
        /\ ~result.success => Truthy(result.error_message)

\* C25: on every failure path, the path of a raised driver exception
\* included, the returned iterations and feedback_history are those of the
\* workflow state at the end of the run.
C25_ResultReportsTerminalState ==
    RunFailed =>
        /\ result.iterations = state.iteration
        /\ result.feedback_history = state.feedback_history

\* A completion call returns in this step.
CompletionCallReturns == pc \in {"optimize_prompt", "generate_code"} /\ trace' # trace

\* C26: one call of the completion client sends exactly one request and
\* returns either an instance with no error or no instance with a non-empty
\* error text, whether the service answers with a valid tool call, answers
\* without one, violates the schema or fails in transport; the node always
\* gets a reply (the call never raises).
C26_OneRequestOneOutcome ==
    /\ [][ CompletionCallReturns =>
              /\ llm'.requests = llm.requests + 1
              /\ llm'.reply.instance # None <=> llm'.reply.error = None
              /\ llm'.reply.error # None => Truthy(llm'.reply.error)
              /\ llm'.reply.instance # None <=>
                     Last(trace') \in {"optimize_ok", "generate_ok"} ]_vars
    /\ [](llm.requests =
             Count(trace, "optimize_ok") + Count(trace, "optimize_failed")
             + GenerationAttempts)

\* C26 witness: three calls were made, and the last one failed with a
\* schema violation.
C26_Witness ==
    /\ llm.requests = 3
    /\ llm.reply.instance = None
    /\ llm.reply.error = Some("Pydantic Validation Error")

\* The places inside one execution step.
InExecution == pc \in {"sandbox_create", "install", "run_code", "e2b_except",
                       "local_write", "local_run"}

\* C27: the steps of one run are strictly sequential: the first step is the
\* one prompt optimization, every execution directly follows the successful
\* generation whose artifact it runs, a generation follows only the
\* optimization or a failed execution, and each feedback entry is put at the
\* end of feedback_history when its producing step (the optimization or a
\* failed execution) completes.
C27_StepOrder ==
    /\ []( /\ trace # <<>> => trace[1] \in {"optimize_ok", "optimize_failed"}
           /\ \A i \in 2..Len(trace) :
                 /\ trace[i] \notin {"optimize_ok", "optimize_failed"}
                 /\ trace[i] \in {"execute_ok", "execute_failed"} =>
                        trace[i-1] = "generate_ok"
                 /\ trace[i] \in {"generate_ok", "generate_failed"} =>
                        (i = 2 \/ trace[i-1] = "execute_failed")
           /\ pc = "generate_code" => trace # <<>>
           /\ (pc = "execute_code" \/ InExecution) =>
                 /\ Last(trace) = "generate_ok"
                 /\ state.generation # None
           /\ InExecution =>
                 step.full_code = Some(full_code_of(state.generation[1])) )
    /\ [][ trace' # trace =>
              IF Last(trace') \in {"optimize_ok", "execute_failed"}
              THEN /\ Len(state'.feedback_history) =
                          Len(state.feedback_history) + 1
                   /\ IsPrefix(state.feedback_history, state'.feedback_history)
              ELSE state'.feedback_history = state.feedback_history ]_vars

\* C27 witness: a run of five steps, with two generate-execute cycles and
\* the three feedback entries in the order of their steps.
C27_Witness ==
    /\ trace = << "optimize_ok", "generate_ok", "execute_failed",
                  "generate_ok", "execute_failed" >>
    /\ Len(state.feedback_history) = 3
    /\ state.feedback_history[1] = "Reasoning for prompt optimization"
    /\ state.feedback_history[2] =
           "The code could not be executed locally due to an error"

\* The result of a call that runs alone from graph state s at node at and
\* meets the external outcomes ins, in order.
RECURSIVE SoloRun(_, _, _)
SoloRun(s, at, ins) ==
    IF at = "END" THEN process_final_state(s)
    ELSE IF ins = <<>> THEN NoResult
    ELSE LET x == Head(ins)
             s2 == CASE at = "optimize_prompt" ->
                         optimize_prompt_node(s, call_llm_with_tool(x.outcome,
                             [optimized_prompt |-> "optimized", reasoning |-> "r"]))
                      [] at = "generate_code" ->
                         generate_code_node(s,
                             call_llm_with_tool(x.outcome, x.code[1]))
                      [] OTHER -> exec_state(s, x.outcome)
             to == CASE at = "optimize_prompt" -> after_optimize_prompt(s2)
                     [] at = "generate_code" -> after_generate_code(s2)
                     [] OTHER -> after_execute_code(s2)
         IN SoloRun(s2, to, Tail(ins))

\* Call i takes no step.
Idle(i) == runs'[i].pc = runs[i].pc

\* C28: two calls running concurrently on one agent share no mutable
\* workflow state: a step of one call leaves the graph state, the collected
\* final state and the result of the other unchanged, the state a call
\* collects is the state its own stream holds, and the result a call
\* returns is the result of the same call running alone with the same
\* external outcomes.
C28_InstancesIsolated ==
    /\ [][ \A j \in Instances :
              Idle(j) =>
                  /\ runs'[j] = runs[j]
                  /\ final_state'[frame_of(j)] = final_state[frame_of(j)] ]_vars
    /\ [](\A i \in Instances :
              /\ runs[i].pc \notin {"start", "idle"} =>
                     final_state[frame_of(i)] = runs[i].state
              /\ runs[i].pc = "returned" =>
                     runs[i].result =
                         SoloRun(initial_state, "optimize_prompt",
                                 runs[i].inputs))

\* C28 witness: both calls have returned, one a success after one cycle, the
\* other a failure after two cycles, with different feedback histories.
C28_Witness ==
    /\ runs[1].pc = "returned"
    /\ runs[2].pc = "returned"
    /\ runs[1].result.success
    /\ runs[1].result.iterations = 1
    /\ ~runs[2].result.success
    /\ runs[2].result.iterations = 2
    /\ Len(runs[2].result.feedback_history) = 3

\* What the feedback entry of a failing return must tell about.
FailureKind(how) ==
    CASE how = "reported_error"    -> "sandbox execution error"
      [] how = "lifecycle_timeout" -> "sandbox lifecycle timeout"
      [] how = "local_nonzero"     -> "local error"
      [] how = "local_timeout"     -> "local timeout"
      [] how = "local_exception"   -> "local error"
      [] OTHER                     -> "nothing"

\* C29: every execution step that does not succeed (a reported sandbox
\* error, a lifecycle timeout, a local non-zero exit, timeout or setup error,
\* also after the sandbox attempts are exhausted) sets error_message and
\* appends exactly one feedback entry, which tells about that failure; every
\* successful execution step clears error_message and appends none.
C29_NoFailureDropped ==
    [][ ExecutionReturns =>
          IF Last(trace') = "execute_failed"
          THEN /\ state'.error_message # None
               /\ state'.execution_result = None
               /\ Len(state'.feedback_history) =
                      Len(state.feedback_history) + 1
               /\ IsPrefix(state.feedback_history, state'.feedback_history)
               /\ FailureKind(last_outcome') \in
                      FeedbackMentions(Last(state'.feedback_history))
          ELSE /\ state'.error_message = None
               /\ state'.execution_result # None
               /\ state'.feedback_history = state.feedback_history ]_vars

\* C29 witness: the sandbox attempts were exhausted, the local run exited
\* with a non-zero status, and the step returned with the error set and the
\* local failure as the last feedback entry.
C29_Witness ==
    /\ last_outcome = "local_nonzero"
    /\ Last(trace) = "execute_failed"
    /\ step.backoffs = max_sandbox_retries - 1
    /\ state.error_message = Some("Local execution failed.")
    /\ Last(state.feedback_history) =
           "Your code failed to execute locally. Error"

\* error_message is present in s (it is not None), whatever its text.
Present(s) == s.error_message # None

\* C30: control flow after a step depends only on whether error_message is
\* present, not on its text: after a generation step the run ends iff
\* error_message is present, and after an execution step the run ends with
\* success iff it is absent, an empty error text counting as present at both
\* places.
C30_PresenceDrivesControlFlow ==
    /\ [][ (pc = "generate_code" /\ trace' # trace) =>
              (pc' = "END" <=> Present(state')) ]_vars
    /\ [][ ExecutionReturns =>
              /\ ~Present(state') => pc' = "END"
              /\ Present(state') =>
                     pc' = IF state'.iteration >= MAX_RETRY_ITERATIONS
                           THEN "END" ELSE "generate_code" ]_vars

\* The run of the main script returns a result with execution.error set.
ReportedError ==
    /\ pc = "run_code"
    /\ step'.main_runs = step.main_runs + 1
    /\ step'.run_outcome = "error"

\* C31: a reported execution error of the script in a live session never
\* causes a new session: the execution step returns at once a failure that
\* carries the error (error_message set, one feedback entry with the error
\* text), the session is closed, no further session is created and local
\* execution is not used.
C31_ReportedErrorReturnsFailure ==
    [][ ReportedError =>
              /\ pc' \in {"END", "generate_code"}
              /\ trace' = Append(trace, "execute_failed")
              /\ ~sandbox_open'
              /\ step'.sessions = step.sessions
              /\ step'.local_runs = 0
              /\ state'.error_message =
                     Some("Execution failed with sandbox error.")
              /\ state'.feedback_history =
                     Append(state.feedback_history,
                            "Your code failed to execute. Error")
              /\ "sandbox execution error" \in
                     FeedbackMentions(Last(state'.feedback_history)) ]_vars

\* C31 witness: the second session of a step ran the script, which reported
\* an error, and the step returned the failure.
C31_Witness ==
    /\ last_outcome = "reported_error"
    /\ Last(trace) = "execute_failed"
    /\ step.sessions = 2
    /\ step.main_runs = 2
    /\ step.local_runs = 0

\* C32: an exception raised while the main script runs in a live session is
\* handled like a reported execution error: after it, the execution step
\* creates no further session and does not use local execution.
C32_RunExceptionNoNewSession ==
    [][ (step.run_raised /\ pc # "execute_code") =>
            /\ step'.sessions = step.sessions
            /\ step'.local_runs = step.local_runs
            /\ pc' \notin {"sandbox_create", "local_write"} ]_vars

\* A session is live: its libraries are being installed or its script is
\* about to run.
InSession == pc \in {"install", "run_code"}

\* C33: dependency installation is non-fatal: in a live session every
\* detected import name gets its installation, whatever an installation does
\* (success, reported error, raised exception) the attempt goes on in the
\* same session, and the main script is then run exactly once in it.
C33_InstallNonFatal ==
    /\ [][ pc = "install" =>
              /\ pc' \in {"install", "run_code"}
              /\ sandbox_open'
              /\ step' = step
              /\ state' = state
              /\ trace' = trace
              /\ attempt' = attempt
              /\ Cardinality(libs_left') = Cardinality(libs_left) - 1 ]_vars
    /\ []( /\ pc = "install" =>
                 /\ libs_left # {}
                 /\ libs_left \subseteq libs_of(state.generation[1])
           /\ pc = "run_code" => libs_left = {}
           /\ InSession => (sandbox_open /\ step.main_runs = step.sessions - 1)
           /\ ~InSession => step.main_runs = step.sessions )

\* C33 witness: two libraries were handled in the second session of a step
\* and the main script has run in each session.
C33_Witness ==
    /\ state.generation # None
    /\ Cardinality(libs_of(state.generation[1])) = 2
    /\ step.sessions = 2
    /\ step.main_runs = 2
    /\ libs_left = {}
    /\ Last(trace) = "execute_ok"

\* A new session attempt of the current execution step starts in this step.
NextAttemptStarts == pc = "e2b_except" /\ pc' = "sandbox_create"

\* C34: one execution step calls Sandbox() at most max_sandbox_retries = 3
\* times; an attempt after the first is made only when the previous one
\* failed with an exception the handler takes for a connectivity or unknown
\* error, never after a run that gave a script result and never after a
\* lifecycle timeout.
C34_AtMostThreeSessionAttempts ==
    /\ []( /\ step.creations <= max_sandbox_retries
           /\ attempt < max_sandbox_retries
           /\ pc = "sandbox_create" => step.creations = attempt
           /\ pc \in {"install", "run_code", "e2b_except"} =>
                 step.creations = attempt + 1 )
    /\ [][ pc' = "sandbox_create" =>
              \/ pc = "execute_code" /\ attempt' = 0
              \/ /\ pc = "e2b_except"
                 /\ ~LifecycleTimeoutMessage(error_msg)
                 /\ attempt' = attempt + 1 ]_vars
    /\ [][ (pc = "run_code" /\ step'.run_outcome \in RunOutcomes) =>
              pc' \in {"END", "generate_code"} ]_vars
    /\ [][ HandlingLifecycleTimeout => pc' \in {"END", "generate_code"} ]_vars

\* C34 witness: the third session attempt of a step is about to be made,
\* after two attempts that failed.
C34_Witness ==
    /\ pc = "sandbox_create"
    /\ attempt = max_sandbox_retries - 1
    /\ step.creations = max_sandbox_retries - 1
    /\ step.run_raised

\* C35: between two consecutive session attempts of one execution step the
\* backoff wait of 5 s takes place: a next attempt starts only from the
\* handler's retry branch, which sleeps first, so the attempts made so far
\* are always one more than the waits taken.
C35_BackoffBetweenAttempts ==
    /\ [][ NextAttemptStarts =>
              /\ step'.backoffs = step.backoffs + 1
              /\ handle_e2b_exception(error_msg, attempt,
                                      ALLOW_LOCAL_EXECUTION) = "retry" ]_vars
    /\ []( pc \in {"sandbox_create", "install", "run_code", "e2b_except"} =>
              step.backoffs = attempt )
    /\ [][ step'.backoffs # step.backoffs =>
              (NextAttemptStarts \/ pc = "execute_code") ]_vars

\* C35 witness: the third attempt starts after two waits.
C35_Witness ==
    /\ pc = "sandbox_create"
    /\ attempt = 2
    /\ step.backoffs = 2
    /\ step.sessions = 0

\* C36: execution_result is present only if the most recent execution step
\* succeeded; whenever it is present error_message is absent, and no
\* generation or execution step runs after it has been set (the workflow is
\* at END or has returned).
C36_OutputOnlyAfterSuccess ==
    state.execution_result # None =>
        /\ trace # <<>>
        /\ Last(trace) = "execute_ok"
        /\ last_outcome \in {"sandbox_ok", "local_ok"}
        /\ state.error_message = None
        /\ pc \in {"END", "returned"}
        /\ Count(trace, "execute_ok") = 1

\* C36 witness: the output was set by the second execution of a run, after
\* a first execution that failed.
C36_Witness ==
    /\ state.execution_result # None
    /\ Count(trace, "execute_failed") = 1
    /\ pc = "END"

\* C38: on every successful run the code and imports of the result are
\* those of the artifact whose execution produced the returned output: the
\* script that ran last was assembled from the generation the result is
\* built from.
C38_ResultArtifactIsExecuted ==
    /\ (pc = "END" /\ state.execution_result # None) =>
          /\ state.generation # None
          /\ step.full_code = Some(full_code_of(state.generation[1]))
          /\ step.local_runs = 1 => step.local_script = step.full_code
    /\ (pc = "returned" /\ result.success) =>
          /\ state.generation # None
          /\ result.code = Some(state.generation[1].code)
          /\ result.imports = Some(state.generation[1].imports)
          /\ result.output = state.execution_result
          /\ step.full_code =
                 Some(<< result.imports[1], result.code[1] >>)

\* C38 witness: a run succeeded with its second artifact, code_b, after the
\* first artifact, code_a, had failed.
C38_Witness ==
    /\ pc = "returned"
    /\ result.success
    /\ result.code = Some("code_b")
    /\ result.iterations = 2

\* C39: in every reachable workflow state feedback_history has at most
\* 1 + iteration entries: one at most from prompt optimization and one at
\* most from the execution that follows each successful generation.
C39_FeedbackBoundedByIteration ==
    /\ Len(state.feedback_history) <= 1 + state.iteration
    /\ Len(state.feedback_history) <=
           Count(trace, "optimize_ok") + Count(trace, "execute_failed")
    /\ ExecutionsDone <= state.iteration

\* C39 witness: the bound is met after two failed executions.
C39_Witness ==
    /\ state.iteration = 2
    /\ Len(state.feedback_history) = 3

\* The text with at most one layer of fence: the singly-fenced counterpart
\* of a text fenced n times.
SinglyFenced(t, n) == fenced(t, IF n >= 1 THEN 1 ELSE 0)

\* C37: code assembly is idempotent with respect to code fences: the script
\* assembled from texts wrapped in two (or more) layers of fence is the
\* script assembled from the same texts wrapped in one layer, and stripping
\* an already stripped text changes nothing.
C37_AssemblyIdempotent ==
    full_code # None =>
        /\ full_code[1] =
              assemble_full_code(
                  SinglyFenced(fence_history.imports,
                               fence_history.imports_layers),
                  SinglyFenced(fence_history.code, fence_history.code_layers))
        /\ strip_fences(strip_fences(code_gen.imports)) =
              strip_fences(code_gen.imports)
        /\ strip_fences(strip_fences(code_gen.code)) =
              strip_fences(code_gen.code)
        /\ assemble_full_code(strip_fences(code_gen.imports),
                              strip_fences(code_gen.code)) = full_code[1]

\* C37 witness: a script was assembled from imports and code both wrapped
\* in two layers of fence, the code itself holding a fence of its own.
C37_Witness ==
    /\ full_code # None
    /\ fence_history.imports_layers = 2
    /\ fence_history.code_layers = 2
    /\ fence_history.code = << "backtick", "backtick", "backtick", "python" >>
    /\ fence_history.imports = << "x" >>

====
